---- MODULE Spec2Model ----
(***************************************************************************)
(* Model of the canteen order backend (src/app.py): the SQLite tables      *)
(* produtos, pedidos and itens_pedido, the order-creation handler          *)
(* cliente_criar_pedido split at its database statements, and the admin    *)
(* handlers that touch the same tables.                                    *)
(*                                                                         *)
(* Database semantics modelled (SQLite, rollback-journal mode, as used by  *)
(* sqlite3.connect with its default isolation level):                      *)
(*   - a SELECT sees the committed tables only;                            *)
(*   - the first INSERT/UPDATE/DELETE of a connection opens a write        *)
(*     transaction, of which there is at most one; another writer waits    *)
(*     for it to end;                                                      *)
(*   - rows written in a transaction become visible at commit, all at      *)
(*     once, and vanish at rollback;                                       *)
(*   - UNIQUE constraints are always enforced; FOREIGN KEY constraints     *)
(*     only when the foreign_keys pragma is on, which the program never    *)
(*     sets, so it is whatever the SQLite build defaults to.               *)
(* REAL columns and Python floats are binary floating point: float, FAdd   *)
(* and FMul round to MantBits significant bits, ties to even.              *)
(***************************************************************************)
EXTENDS Integers, Sequences, FiniteSets, TLC

\* ------------------------------------------------------------- bounds
\* significant bits of a float (53 in the program's doubles)
MantBits == 2
\* products ever added (AUTOINCREMENT ids 1..MaxProdutos)
MaxProdutos == 2
\* longest item list of a request
MaxItens == 2
\* number of distinct codes the random draw can produce
NumCodigos == 2
\* client requests POST /pedidos, each handled once, on its own connection
NumRequisicoes == 2
\* admin requests, handled one after the other
MaxAdminReqs == 2

\* --------------------------------------------------- program constants
tamanho == 7

caracteres ==
  << "A", "B", "C", "D", "E", "F", "G", "H", "I", "J", "K", "L", "M",
     "N", "O", "P", "Q", "R", "S", "T", "U", "V", "W", "X", "Y", "Z",
     "0", "1", "2", "3", "4", "5", "6", "7", "8", "9" >>

minusculas ==
  << "a", "b", "c", "d", "e", "f", "g", "h", "i", "j", "k", "l", "m",
     "n", "o", "p", "q", "r", "s", "t", "u", "v", "w", "x", "y", "z" >>

PENDENTE == << "P", "E", "N", "D", "E", "N", "T", "E" >>
PREPARANDO == << "P", "R", "E", "P", "A", "R", "A", "N", "D", "O" >>
PRONTO == << "P", "R", "O", "N", "T", "O" >>
ENTREGUE == << "E", "N", "T", "R", "E", "G", "U", "E" >>
CANCELADO == << "C", "A", "N", "C", "E", "L", "A", "D", "O" >>

\* status_permitidos of admin_atualizar_status_pedido
status_permitidos == {PENDENTE, PREPARANDO, PRONTO, ENTREGUE, CANCELADO}

\* CHECK(status IN (...)) of table pedidos
status_do_schema == {PENDENTE, PREPARANDO, PRONTO, ENTREGUE, CANCELADO}

\* ------------------------------------------------------ pure functions
RECURSIVE Pow2(_)
Pow2(n) == IF n = 0 THEN 1 ELSE 2 * Pow2(n - 1)

RECURSIVE BitLen(_)
BitLen(n) == IF n = 0 THEN 0 ELSE 1 + BitLen(n \div 2)

\* the nearest float to the non-negative number n, ties to even
float(n) ==
  IF BitLen(n) <= MantBits THEN n
  ELSE LET u == Pow2(BitLen(n) - MantBits)
           q == n \div u
           r == n % u
       IN  IF 2 * r < u THEN q * u
           ELSE IF 2 * r > u THEN (q + 1) * u
           ELSE IF q % 2 = 0 THEN q * u
           ELSE (q + 1) * u

FMul(a, b) == float(a * b)

FAdd(a, b) == float(a + b)

\* str.upper on one character
UpperChar(c) ==
  IF \E i \in 1..Len(minusculas) : minusculas[i] = c
  THEN caracteres[CHOOSE i \in 1..Len(minusculas) : minusculas[i] = c]
  ELSE c

\* mutant: the requested status is compared and stored as sent
upper_ComoEnviado(s) == s

upper(s) == [i \in 1..Len(s) |-> UpperChar(s[i])]

\* the k-th code the random draw can produce: tamanho characters of caracteres
Sorteio(k) == [i \in 1..tamanho |-> caracteres[((5 * k + 7 * i) % Len(caracteres)) + 1]]

Codigos == {Sorteio(k) : k \in 1..NumCodigos}

SemCodigo == << >>

\* ------------------------------------------------------------- inputs
Quantidades == {0, 3}

PrecoInputs == {0, 1, 3}

ProdutoIds == 1..MaxProdutos

Requisicoes == 1..NumRequisicoes

\* one entry of dados['itens']: an object with well-formed integers ("int"), an
\* object with a field missing ("sem_campo"), with a non-numeric string
\* ("texto") or a null ("nulo") for a field, or an entry that is a number or
\* null and no object ("nao_objeto")
ItemReqs ==
  [forma : {"int"}, produto_id : ProdutoIds, quantidade : Quantidades]
  \cup [forma : {"sem_campo", "texto", "nulo", "nao_objeto"},
        produto_id : {0}, quantidade : {0}]

\* what the first check of a body sees: no 'itens', an empty list, a non-empty list
FormasDeItens == {"ausente", "vazia", "lista"}

\* bodies of POST /admin/produtos: 'nome' or 'preco' missing, or both present
ProdutoReqs ==
  [tem_campos : {TRUE}, preco : PrecoInputs, disponivel : BOOLEAN]
  \cup {[tem_campos |-> FALSE, preco |-> 0, disponivel |-> TRUE]}

\* bodies of PUT /admin/produtos/<id>: each of 'preco', 'disponivel' present or not
AtualizacaoReqs ==
  {d \in [tem_preco : BOOLEAN, preco : PrecoInputs,
          tem_disponivel : BOOLEAN, disponivel : BOOLEAN] :
     /\ ~d.tem_preco => d.preco = 0
     /\ ~d.tem_disponivel => d.disponivel = TRUE}

StatusInputs ==
  { << "p", "r", "o", "n", "t", "o" >>,
    << "P", "r", "o", "n", "t", "o" >>,
    << "p", "r", "o", "n", "t", "a" >> }

StatusReqs ==
  [tem_status : {TRUE}, status : StatusInputs]
    \cup {[tem_status |-> FALSE, status |-> << >>]}
              \cup {[tem_status |-> FALSE, status |-> << >>]}

\* -------------------------------------------------------------- state
\* A request r is one POST /pedidos. The entries of its item list are drawn as
\* the validation loop reaches them (an entry not yet reached influences
\* nothing); dados[r] holds the entries reached so far. The statements of the
\* write transaction (INSERT header, INSERT items, commit or rollback) are one
\* step: no other connection sees or changes anything between them.
VARIABLES
  produtos,             \* table produtos: id -> [preco, disponivel]
  seq_produtos,         \* AUTOINCREMENT counter of produtos
  pedidos,              \* table pedidos, committed rows; id = position
  itens_pedido,         \* table itens_pedido, committed rows; id = position
  foreign_keys,         \* whether the build enforces FOREIGN KEY constraints
  pc,                   \* per request: position in cliente_criar_pedido
  dados,                \* per request: the entries of dados['itens'] reached so far
  itens_pedido_info,    \* per request: the validated items collected so far
  valor_total_pedido,   \* per request: the running total
  codigo_retirada_gerado, \* per request: the code gerar_codigo_retirada returned
  resp,                 \* per request: its response
  admin_pc,             \* "idle", or "deletar" between the check and the DELETE
  admin_produto_id,     \* the product admin_deletar_produto is deleting
  admin_resp,           \* the HTTP status of the last admin response
  admin_feitos          \* admin requests received so far

db == << produtos, seq_produtos, pedidos, itens_pedido, foreign_keys >>
locais == << pc, dados, itens_pedido_info, valor_total_pedido, codigo_retirada_gerado, resp >>
admin == << admin_pc, admin_produto_id, admin_resp, admin_feitos >>
vars == << db, locais, admin >>

SemResposta == [http |-> 0, erro |-> "", pedido_id |-> 0, codigo_retirada |-> SemCodigo,
                valor_total |-> 0, status |-> << >>]

Erro(http, erro) == [SemResposta EXCEPT !.http = http, !.erro = erro]

\* ------------------------------------------------- database statements
\* SELECT id FROM pedidos WHERE codigo_retirada = ?
CodigoExiste(codigo) ==
  \E i \in 1..Len(pedidos) : pedidos[i].codigo_retirada = codigo

\* mutant: the column codigo_retirada without its UNIQUE constraint
ViolaUniqueCodigo_SemUnique(codigo) == FALSE

\* codigo_retirada TEXT NOT NULL UNIQUE, on INSERT INTO pedidos
ViolaUniqueCodigo(codigo) ==
  \E i \in 1..Len(pedidos) : pedidos[i].codigo_retirada = codigo

\* UNIQUE (pedido_id, produto_id), on INSERT INTO itens_pedido with rows `itens`
ViolaUniqueItem(itens, pedido_id, produto_id) ==
  \E i \in 1..Len(itens) :
    /\ itens[i].pedido_id = pedido_id
    /\ itens[i].produto_id = produto_id

\* FOREIGN KEY (produto_id) REFERENCES produtos (id), on INSERT INTO itens_pedido
ViolaFkProduto(produto_id) ==
  foreign_keys /\ produto_id \notin DOMAIN produtos

\* SELECT COUNT(*) FROM itens_pedido WHERE produto_id = ?
ContagemItens(produto_id) ==
  Cardinality({i \in 1..Len(itens_pedido) : itens_pedido[i].produto_id = produto_id})

\* FOREIGN KEY (produto_id) REFERENCES produtos (id), on DELETE FROM produtos
ViolaFkAoDeletar(produto_id) ==
  foreign_keys /\ ContagemItens(produto_id) > 0

\* INSERT INTO pedidos (cliente_identificador, codigo_retirada, valor_total):
\* the rows of pedidos as the transaction sees them; status takes its DEFAULT
InserirPedido(codigo_retirada, valor_total) ==
  Append(pedidos, [codigo_retirada |-> codigo_retirada, status |-> PENDENTE,
                   valor_total |-> valor_total])

\* for item in itens_pedido_info: INSERT INTO itens_pedido ..., over the rows
\* `itens` the transaction sees; stops at the first insert that raises
RECURSIVE InserirItens(_, _, _)
InserirItens(pedido_id, info, itens) ==
  IF info = << >> THEN [ok |-> TRUE, excecao |-> "", itens |-> itens]
  ELSE LET item == Head(info)
       IN  IF ViolaUniqueItem(itens, pedido_id, item.produto_id)
           THEN [ok |-> FALSE, excecao |-> "UNIQUE itens_pedido", itens |-> itens]
           ELSE IF ViolaFkProduto(item.produto_id)
           THEN [ok |-> FALSE, excecao |-> "FOREIGN KEY", itens |-> itens]
           ELSE InserirItens(pedido_id, Tail(info),
                  Append(itens, [pedido_id |-> pedido_id,
                                 produto_id |-> item.produto_id,
                                 quantidade |-> item.quantidade,
                                 preco_unitario_compra |-> item.preco_unitario_compra]))

\* --------------------------------------------------- cliente_criar_pedido
\* the handler returns: its locals die with the request
Responder(r, resposta) ==
  /\ pc' = [pc EXCEPT ![r] = "fim"]
  /\ resp' = [resp EXCEPT ![r] = resposta]
  /\ itens_pedido_info' = [itens_pedido_info EXCEPT ![r] = << >>]
  /\ valor_total_pedido' = [valor_total_pedido EXCEPT ![r] = 0]
  /\ codigo_retirada_gerado' = [codigo_retirada_gerado EXCEPT ![r] = SemCodigo]

\* return jsonify({"erro": ...}), http   (a validation failure: nothing written)
Retornar(r, http, erro) ==
  /\ Responder(r, Erro(http, erro))
  /\ UNCHANGED db

\* mutant: the exception handler answers 500 and commits what was written
ErroInterno_SemRollback(r, excecao, pedidos_tx, itens_tx) ==
  /\ pedidos' = pedidos_tx
  /\ itens_pedido' = itens_tx
  /\ Responder(r, Erro(500, excecao))
  /\ UNCHANGED << produtos, seq_produtos, foreign_keys >>

\* except Exception as e: db.rollback(); return ..., 500 (the message names e
\* outside production). The rows pedidos_tx and itens_tx the open transaction
\* had written are discarded
ErroInterno(r, excecao, pedidos_tx, itens_tx) ==
  /\ pedidos' = pedidos
  /\ itens_pedido' = itens_pedido
  /\ Responder(r, Erro(500, excecao))
  /\ UNCHANGED << produtos, seq_produtos, foreign_keys >>

\* db.commit() and the 201 response
Commit(r, pedidos_tx, itens_tx) ==
  /\ pedidos' = pedidos_tx
  /\ itens_pedido' = itens_tx
  /\ Responder(r, [http |-> 201, erro |-> "", pedido_id |-> Len(pedidos_tx),
                   codigo_retirada |-> codigo_retirada_gerado[r],
                   valor_total |-> valor_total_pedido[r], status |-> PENDENTE])
  /\ UNCHANGED << produtos, seq_produtos, foreign_keys >>

\* request.get_json() and the check of dados['itens']
criar_pedido_inicio(r, forma) ==
  /\ pc[r] = "nova"
  /\ UNCHANGED dados
  /\ IF forma # "lista"
     THEN Retornar(r, 400, "itens")
     ELSE /\ pc' = [pc EXCEPT ![r] = "validar"]
          /\ UNCHANGED << itens_pedido_info, valor_total_pedido,
                          codigo_retirada_gerado, resp, db >>

\* mutant: the line item is inserted and committed inside the validation loop
AceitarItem_InsereNoLaco(r, produto_id, quantidade, ultimo) ==
  LET preco_unitario_compra == float(produtos[produto_id].preco)
      info == Append(itens_pedido_info[r],
                     [produto_id |-> produto_id, quantidade |-> quantidade,
                      preco_unitario_compra |-> preco_unitario_compra])
      total == FAdd(valor_total_pedido[r], FMul(float(quantidade), preco_unitario_compra))
  IN  IF ultimo /\ total <= 0
      THEN Retornar(r, 400, "total")
      ELSE /\ itens_pedido_info' = [itens_pedido_info EXCEPT ![r] = info]
           /\ valor_total_pedido' = [valor_total_pedido EXCEPT ![r] = total]
           /\ pc' = [pc EXCEPT ![r] = IF ultimo THEN "gerar" ELSE "validar"]
           /\ itens_pedido' = Append(itens_pedido,
                                     [pedido_id |-> Len(pedidos) + 1,
                                      produto_id |-> produto_id,
                                      quantidade |-> quantidade,
                                      preco_unitario_compra |-> preco_unitario_compra])
           /\ UNCHANGED << codigo_retirada_gerado, resp, produtos, seq_produtos,
                           pedidos, foreign_keys >>

\* the item is valid: collect it, add to the total; after the last item of the
\* list (ultimo) comes the check of the total
AceitarItem(r, produto_id, quantidade, ultimo) ==
  LET preco_unitario_compra == float(produtos[produto_id].preco)
      info == Append(itens_pedido_info[r],
                     [produto_id |-> produto_id, quantidade |-> quantidade,
                      preco_unitario_compra |-> preco_unitario_compra])
      total == FAdd(valor_total_pedido[r], FMul(float(quantidade), preco_unitario_compra))
  IN  IF ultimo /\ total <= 0
      THEN Retornar(r, 400, "total")
      ELSE /\ itens_pedido_info' = [itens_pedido_info EXCEPT ![r] = info]
           /\ valor_total_pedido' = [valor_total_pedido EXCEPT ![r] = total]
           /\ pc' = [pc EXCEPT ![r] = IF ultimo THEN "gerar" ELSE "validar"]
           /\ UNCHANGED << codigo_retirada_gerado, resp, db >>

\* one iteration of: for item_req in dados['itens']
criar_pedido_validar(r, item_req, ultimo) ==
  /\ pc[r] = "validar"
  /\ Len(dados[r]) < MaxItens
  /\ Len(dados[r]) + 1 = MaxItens => ultimo
  /\ dados' = [dados EXCEPT ![r] = Append(@, item_req)]
  /\ LET produto_id == item_req.produto_id
         quantidade == item_req.quantidade
     IN  IF item_req.forma = "nao_objeto"
         THEN ErroInterno(r, "TypeError", pedidos, itens_pedido)
         ELSE IF item_req.forma = "sem_campo" THEN Retornar(r, 400, "campos")
         ELSE IF item_req.forma = "texto" THEN Retornar(r, 400, "inteiros")
         ELSE IF item_req.forma = "nulo" THEN ErroInterno(r, "TypeError", pedidos, itens_pedido)
         ELSE IF quantidade <= 0 THEN Retornar(r, 400, "quantidade")
         ELSE IF produto_id \notin DOMAIN produtos THEN Retornar(r, 404, "nao_encontrado")
         ELSE IF ~produtos[produto_id].disponivel THEN Retornar(r, 400, "indisponivel")
         ELSE AceitarItem(r, produto_id, quantidade, ultimo)

\* mutant: the drawn code is returned without the SELECT on pedidos
gerar_codigo_retirada_SemConsulta(r, codigo) ==
  /\ pc[r] = "gerar"
  /\ UNCHANGED dados
  /\ codigo_retirada_gerado' = [codigo_retirada_gerado EXCEPT ![r] = codigo]
  /\ pc' = [pc EXCEPT ![r] = "inserir"]
  /\ UNCHANGED << itens_pedido_info, valor_total_pedido, resp, db >>

\* one iteration of the loop of gerar_codigo_retirada, drawing codigo
gerar_codigo_retirada(r, codigo) ==
  /\ pc[r] = "gerar"
  /\ UNCHANGED dados
  /\ IF CodigoExiste(codigo)
     THEN UNCHANGED << pc, itens_pedido_info, valor_total_pedido, codigo_retirada_gerado, resp, db >>
     ELSE /\ codigo_retirada_gerado' = [codigo_retirada_gerado EXCEPT ![r] = codigo]
          /\ pc' = [pc EXCEPT ![r] = "inserir"]
          /\ UNCHANGED << itens_pedido_info, valor_total_pedido, resp, db >>

\* the write transaction: INSERT INTO pedidos, the INSERTs INTO itens_pedido,
\* db.commit(); an IntegrityError of any of them goes to except Exception
criar_pedido_inserir(r) ==
  /\ pc[r] = "inserir"
  /\ UNCHANGED dados
  /\ IF ViolaUniqueCodigo(codigo_retirada_gerado[r])
     THEN ErroInterno(r, "UNIQUE pedidos.codigo_retirada", pedidos, itens_pedido)
     ELSE LET pedidos_tx == InserirPedido(codigo_retirada_gerado[r], valor_total_pedido[r])
              pedido_id == Len(pedidos_tx)
              ins == InserirItens(pedido_id, itens_pedido_info[r], itens_pedido)
          IN  IF ins.ok
              THEN Commit(r, pedidos_tx, ins.itens)
              ELSE ErroInterno(r, ins.excecao, pedidos_tx, ins.itens)

\* ------------------------------------------- cliente_consultar_pedido
\* the rows of: itens_pedido ip JOIN produtos p ON ip.produto_id = p.id
\* WHERE ip.pedido_id = ?, over the tables P (produtos) and I (itens_pedido)
ItensDoPedidoComProduto(pedido_id, P, I) ==
  SelectSeq(I, LAMBDA ip : ip.pedido_id = pedido_id /\ ip.produto_id \in DOMAIN P)

\* GET /pedidos/<codigo>: what the handler answers over the tables O (pedidos),
\* P (produtos) and I (itens_pedido)
cliente_consultar_pedido(codigo, O, P, I) ==
  IF \E i \in 1..Len(O) : O[i].codigo_retirada = codigo
  THEN LET id == CHOOSE i \in 1..Len(O) : O[i].codigo_retirada = codigo
       IN  [http |-> 200,
            encontrados |-> Cardinality({i \in 1..Len(O) : O[i].codigo_retirada = codigo}),
            id |-> id,
            status |-> O[id].status,
            valor_total |-> O[id].valor_total,
            itens |-> ItensDoPedidoComProduto(id, P, I)]
  ELSE [http |-> 404, encontrados |-> 0, id |-> 0, status |-> << >>, valor_total |-> 0,
        itens |-> << >>]

\* ------------------------------------------------------ admin handlers
AdminRetornar(http) ==
  /\ admin_resp' = http
  /\ admin_pc' = "idle"
  /\ admin_produto_id' = 0

\* mutant: the price check refuses only negative prices (preco < 0)
admin_adicionar_produto_AceitaZero(d) ==
  /\ admin_pc = "idle"
  /\ IF ~d.tem_campos \/ float(d.preco) < 0
     THEN AdminRetornar(400) /\ UNCHANGED db
     ELSE /\ seq_produtos < MaxProdutos
          /\ seq_produtos' = seq_produtos + 1
          /\ produtos' = [id \in DOMAIN produtos \cup {seq_produtos + 1} |->
                            IF id = seq_produtos + 1
                            THEN [preco |-> float(d.preco), disponivel |-> d.disponivel]
                            ELSE produtos[id]]
          /\ AdminRetornar(201)
          /\ UNCHANGED << pedidos, itens_pedido, foreign_keys >>

\* POST /admin/produtos
admin_adicionar_produto(d) ==
  /\ admin_pc = "idle"
  /\ IF ~d.tem_campos \/ float(d.preco) <= 0
     THEN AdminRetornar(400) /\ UNCHANGED db
     ELSE /\ seq_produtos < MaxProdutos
          /\ seq_produtos' = seq_produtos + 1
          /\ produtos' = [id \in DOMAIN produtos \cup {seq_produtos + 1} |->
                            IF id = seq_produtos + 1
                            THEN [preco |-> float(d.preco), disponivel |-> d.disponivel]
                            ELSE produtos[id]]
          /\ AdminRetornar(201)
          /\ UNCHANGED << pedidos, itens_pedido, foreign_keys >>

\* the row of product produto_id after UPDATE produtos SET ... with the fields of d
ProdutoAtualizado(produto_id, d) ==
  [preco |-> IF d.tem_preco THEN float(d.preco) ELSE produtos[produto_id].preco,
   disponivel |-> IF d.tem_disponivel THEN d.disponivel ELSE produtos[produto_id].disponivel]

\* mutant: the update of a product's price also rewrites the price of the line
\* items of that product
UpdateProdutos_Cascata(produto_id, d) ==
  /\ produtos' = [produtos EXCEPT ![produto_id] = ProdutoAtualizado(produto_id, d)]
  /\ itens_pedido' = [k \in 1..Len(itens_pedido) |->
                        IF itens_pedido[k].produto_id = produto_id
                        THEN [itens_pedido[k] EXCEPT !.preco_unitario_compra =
                                ProdutoAtualizado(produto_id, d).preco]
                        ELSE itens_pedido[k]]
  /\ UNCHANGED << seq_produtos, pedidos, foreign_keys >>

\* UPDATE produtos SET ... WHERE id = ?; db.commit()
UpdateProdutos(produto_id, d) ==
  /\ produtos' = [produtos EXCEPT ![produto_id] = ProdutoAtualizado(produto_id, d)]
  /\ UNCHANGED << seq_produtos, pedidos, itens_pedido, foreign_keys >>

\* PUT /admin/produtos/<produto_id>
admin_atualizar_produto(produto_id, d) ==
  /\ admin_pc = "idle"
  /\ IF ~d.tem_preco /\ ~d.tem_disponivel
     THEN AdminRetornar(400) /\ UNCHANGED db
     ELSE IF produto_id \notin DOMAIN produtos
     THEN AdminRetornar(404) /\ UNCHANGED db
     ELSE IF d.tem_preco /\ float(d.preco) <= 0
     THEN AdminRetornar(400) /\ UNCHANGED db
     ELSE /\ UpdateProdutos(produto_id, d)
          /\ AdminRetornar(200)

\* DELETE /admin/produtos/<produto_id>, up to the check of the referencing items
admin_deletar_produto_verificar(produto_id) ==
  /\ admin_pc = "idle"
  /\ IF produto_id \notin DOMAIN produtos
     THEN AdminRetornar(404)
     ELSE IF ContagemItens(produto_id) > 0
     THEN AdminRetornar(409)
     ELSE /\ admin_pc' = "deletar"
          /\ admin_produto_id' = produto_id
          /\ admin_resp' = 0
  /\ UNCHANGED db

\* the rows of produtos after DELETE FROM produtos WHERE id = produto_id
ProdutosAposDelete(produto_id) ==
  [id \in DOMAIN produtos \ {produto_id} |-> produtos[id]]

\* DELETE /admin/produtos/<produto_id>: the DELETE, the commit and the response
admin_deletar_produto_delete ==
  /\ admin_pc = "deletar"
  /\ IF ViolaFkAoDeletar(admin_produto_id)
     THEN AdminRetornar(409) /\ UNCHANGED db
     ELSE /\ produtos' = ProdutosAposDelete(admin_produto_id)
          /\ AdminRetornar(200)
          /\ UNCHANGED << seq_produtos, pedidos, itens_pedido, foreign_keys >>

\* CHECK(status IN (...)), on UPDATE pedidos SET status = ?
ViolaCheckStatus(status) == status \notin status_do_schema

\* the rows of pedidos after UPDATE pedidos SET status = ? WHERE codigo_retirada = ?
PedidosComStatus(codigo_retirada, novo_status) ==
  [i \in 1..Len(pedidos) |->
     IF pedidos[i].codigo_retirada = codigo_retirada
     THEN [pedidos[i] EXCEPT !.status = novo_status]
     ELSE pedidos[i]]

\* PUT /admin/pedidos/<codigo_retirada>/status
admin_atualizar_status_pedido(codigo_retirada, d) ==
  /\ admin_pc = "idle"
  /\ IF ~d.tem_status
     THEN AdminRetornar(400) /\ UNCHANGED db
     ELSE IF upper(d.status) \notin status_permitidos
     THEN AdminRetornar(400) /\ UNCHANGED db
     ELSE IF ~CodigoExiste(codigo_retirada)
     THEN AdminRetornar(404) /\ UNCHANGED db
     ELSE IF ViolaCheckStatus(upper(d.status))
     THEN AdminRetornar(500) /\ UNCHANGED db
     ELSE /\ pedidos' = PedidosComStatus(codigo_retirada, upper(d.status))
          /\ AdminRetornar(200)
          /\ UNCHANGED << produtos, seq_produtos, itens_pedido, foreign_keys >>

\* the admin sends its next request
AdminRecebe ==
  /\ admin_feitos < MaxAdminReqs
  /\ admin_feitos' = admin_feitos + 1

Init ==
  /\ produtos = << >>
  /\ seq_produtos = 0
  /\ pedidos = << >>
  /\ itens_pedido = << >>
  /\ foreign_keys \in BOOLEAN
  /\ pc = [r \in Requisicoes |-> "nova"]
  /\ dados = [r \in Requisicoes |-> << >>]
  /\ itens_pedido_info = [r \in Requisicoes |-> << >>]
  /\ valor_total_pedido = [r \in Requisicoes |-> 0]
  /\ codigo_retirada_gerado = [r \in Requisicoes |-> SemCodigo]
  /\ resp = [r \in Requisicoes |-> SemResposta]
  /\ admin_pc = "idle"
  /\ admin_produto_id = 0
  /\ admin_resp = 0
  /\ admin_feitos = 0

PedidoInicio == \E r \in Requisicoes, forma \in FormasDeItens :
  criar_pedido_inicio(r, forma) /\ UNCHANGED admin

PedidoValidar == \E r \in Requisicoes, item_req \in ItemReqs, ultimo \in BOOLEAN :
  criar_pedido_validar(r, item_req, ultimo) /\ UNCHANGED admin

PedidoGerarCodigo == \E r \in Requisicoes, codigo \in Codigos :
  gerar_codigo_retirada(r, codigo) /\ UNCHANGED admin

PedidoInserir == \E r \in Requisicoes :
  criar_pedido_inserir(r) /\ UNCHANGED admin

AdicionarProduto == \E d \in ProdutoReqs :
  admin_adicionar_produto(d) /\ AdminRecebe /\ UNCHANGED locais

AtualizarProduto == \E produto_id \in ProdutoIds, d \in AtualizacaoReqs :
  admin_atualizar_produto(produto_id, d) /\ AdminRecebe /\ UNCHANGED locais

DeletarProdutoVerificar == \E produto_id \in ProdutoIds :
  admin_deletar_produto_verificar(produto_id) /\ AdminRecebe /\ UNCHANGED locais

DeletarProdutoDelete ==
  admin_deletar_produto_delete /\ UNCHANGED << admin_feitos, locais >>

AtualizarStatus == \E codigo \in Codigos, d \in StatusReqs :
  admin_atualizar_status_pedido(codigo, d) /\ AdminRecebe /\ UNCHANGED locais

Next ==
  \/ PedidoInicio
  \/ PedidoValidar
  \/ PedidoGerarCodigo
  \/ PedidoInserir
  \/ AdicionarProduto
  \/ AtualizarProduto
  \/ DeletarProdutoVerificar
  \/ DeletarProdutoDelete
  \/ AtualizarStatus

Spec == Init /\ [][Next]_vars

\* random.choice draws fairly: a code that stays free while a call of
\* gerar_codigo_retirada loops is drawn by it sooner or later
SpecJusto ==
  /\ Spec
  /\ \A r \in Requisicoes, codigo \in Codigos :
       WF_vars(gerar_codigo_retirada(r, codigo) /\ UNCHANGED admin)

\* ------------------------------------------------------------- claims
\* the rows of the table I that belong to one order, in id order
ItensDe(I, pedido_id) ==
  SelectSeq(I, LAMBDA ip : ip.pedido_id = pedido_id)

\* the rows of itens_pedido of one order, in id order
ItensDoPedido(pedido_id) == ItensDe(itens_pedido, pedido_id)

\* some line item references the product
Referenciado(produto_id) ==
  \E k \in 1..Len(itens_pedido) : itens_pedido[k].produto_id = produto_id

\* the five status values
CincoStatus == {PENDENTE, PREPARANDO, PRONTO, ENTREGUE, CANCELADO}

\* the same character, or the lower-case and the upper-case form of one letter
MesmaLetra(c, d) ==
  c = d \/ \E i \in 1..Len(minusculas) : {c, d} = {minusculas[i], caracteres[i]}

\* the two strings are equal when case is ignored
IgualSemCaixa(a, b) ==
  Len(a) = Len(b) /\ \A i \in 1..Len(a) : MesmaLetra(a[i], b[i])

\* quantity x unit price summed over the rows, exactly
RECURSIVE SomaExata(_)
SomaExata(itens) ==
  IF itens = << >> THEN 0
  ELSE Head(itens).quantidade * Head(itens).preco_unitario_compra + SomaExata(Tail(itens))

\* C1: in every reachable state no two orders of the store have the same
\* pickup code, also when the PlaceOrder requests interleave.
C1_CodigosUnicos ==
  \A i, j \in 1..Len(pedidos) :
    i # j => pedidos[i].codigo_retirada # pedidos[j].codigo_retirada

\* two requests drew the same free code; one committed, the store refused the other
C1_Witness ==
  /\ Len(pedidos) = 1
  /\ \E r \in Requisicoes : resp[r].erro = "UNIQUE pedidos.codigo_retirada"

\* C2 (as claimed): every stored order's valor_total equals, exactly, the sum
\* over its line items of quantity x purchase-time unit price.
C2_TotalSomaExata ==
  \A i \in 1..Len(pedidos) :
    pedidos[i].valor_total = SomaExata(ItensDoPedido(i))

\* C3: no step of the validation of a PlaceOrder request writes to pedidos or
\* itens_pedido, so a request that ends in a validation failure (400 or 404:
\* no or empty item list, missing field, non-integer, quantity <= 0, product
\* not found, product unavailable), also after valid items, leaves both
\* tables exactly as they were.
C3_FalhaDeValidacaoNaoEscreve ==
  [][ /\ (PedidoInicio \/ PedidoValidar) => UNCHANGED << pedidos, itens_pedido >>
      /\ \A r \in Requisicoes :
           (resp[r].http = 0 /\ resp'[r].http \in {400, 404})
             => UNCHANGED << pedidos, itens_pedido >> ]_vars

\* a request failed on its second entry (product not found) after a valid
\* first entry, with an order already in the store
C3_Witness ==
  /\ Len(pedidos) = 1
  /\ \E r \in Requisicoes :
       /\ resp[r].http = 404
       /\ Len(dados[r]) = 2

\* C4 (as claimed): the conflict of a duplicate pickup code at the insert of
\* the order header is never returned to the caller as an error.
C4_ConflitoNuncaDevolvido ==
  \A r \in Requisicoes : resp[r].erro # "UNIQUE pedidos.codigo_retirada"

\* C5 (as claimed): every line item references an order that exists and a
\* product that exists in the catalog.
C5_ReferenciasExistem ==
  \A k \in 1..Len(itens_pedido) :
    /\ itens_pedido[k].pedido_id \in 1..Len(pedidos)
    /\ itens_pedido[k].produto_id \in DOMAIN produtos

\* C6: an order header and its line items are committed all-or-nothing. In
\* every state each order has at least one line item and no (order, product)
\* pair appears twice; the step that ends a PlaceOrder request either answers
\* 201 and adds exactly one order with one line item per collected entry and
\* nothing else, or answers an error and leaves pedidos and itens_pedido as
\* they were (the header inserted before a failing line item is rolled back).
C6_TudoOuNada ==
  /\ [](/\ \A i \in 1..Len(pedidos) : Len(ItensDoPedido(i)) >= 1
        /\ \A k, l \in 1..Len(itens_pedido) :
             k # l => << itens_pedido[k].pedido_id, itens_pedido[k].produto_id >>
                        # << itens_pedido[l].pedido_id, itens_pedido[l].produto_id >>)
  /\ [][\A r \in Requisicoes :
          (pc[r] = "inserir" /\ pc'[r] = "fim") =>
            IF resp'[r].http = 201
            THEN /\ Len(pedidos') = Len(pedidos) + 1
                 /\ SubSeq(pedidos', 1, Len(pedidos)) = pedidos
                 /\ Len(itens_pedido') = Len(itens_pedido) + Len(itens_pedido_info[r])
                 /\ SubSeq(itens_pedido', 1, Len(itens_pedido)) = itens_pedido
                 /\ Len(ItensDe(itens_pedido', Len(pedidos'))) = Len(itens_pedido_info[r])
            ELSE UNCHANGED << pedidos, itens_pedido >>]_vars

\* a request naming the same product twice was refused at its second line
\* item, and another request's order is stored
C6_Witness ==
  /\ Len(pedidos) = 1
  /\ \E r \in Requisicoes : resp[r].erro = "UNIQUE itens_pedido"

\* C7: no step changes the total, the pickup code or the line items (product,
\* quantity, purchase-time unit price) of an order that is already stored:
\* not a product update, not a status update, not a later PlaceOrder.
C7_PedidoImutavel ==
  [][\A i \in 1..Len(pedidos) :
       /\ i <= Len(pedidos')
       /\ pedidos'[i].valor_total = pedidos[i].valor_total
       /\ pedidos'[i].codigo_retirada = pedidos[i].codigo_retirada
       /\ ItensDe(itens_pedido', i) = ItensDe(itens_pedido, i)]_vars

\* the price of a product changed after an order of it was stored
C7_Witness ==
  \E k \in 1..Len(itens_pedido) :
    /\ itens_pedido[k].produto_id \in DOMAIN produtos
    /\ produtos[itens_pedido[k].produto_id].preco # itens_pedido[k].preco_unitario_compra

\* C8 (as claimed): the DELETE of a product that a line item references
\* answers 409 and leaves the tables unchanged, at the handler's check and at
\* its DELETE statement; the DELETE of a product no line item references
\* removes exactly that product and nothing else.
C8_DeleteProduto ==
  [][ /\ \A produto_id \in DOMAIN produtos :
           (admin_deletar_produto_verificar(produto_id) /\ Referenciado(produto_id))
             => (admin_resp' = 409 /\ UNCHANGED db)
      /\ admin_deletar_produto_delete =>
           IF Referenciado(admin_produto_id)
           THEN admin_resp' = 409 /\ UNCHANGED db
           ELSE /\ admin_resp' = 200
                /\ DOMAIN produtos' = DOMAIN produtos \ {admin_produto_id}
                /\ \A id \in DOMAIN produtos' : produtos'[id] = produtos[id]
                /\ UNCHANGED << pedidos, itens_pedido >> ]_vars

\* C9 (as claimed): when a PlaceOrder answers 201 it reports status PENDENTE,
\* a code of 7 characters from A-Z and 0-9 and a total, and the lookup by that
\* code then finds exactly one order, PENDENTE, with the same total and one
\* line item per requested entry, with the requested product and quantity and
\* the price the product had when the request read it.
C9_ConsultaAposPedido ==
  [][\A r \in Requisicoes :
       (pc[r] = "inserir" /\ resp'[r].http = 201) =>
         LET c == cliente_consultar_pedido(resp'[r].codigo_retirada,
                                           pedidos', produtos', itens_pedido')
         IN  /\ resp'[r].status = PENDENTE
             /\ Len(resp'[r].codigo_retirada) = 7
             /\ \A i \in 1..Len(resp'[r].codigo_retirada) :
                  \E j \in 1..Len(caracteres) :
                    resp'[r].codigo_retirada[i] = caracteres[j]
             /\ c.http = 200
             /\ c.encontrados = 1
             /\ c.id = resp'[r].pedido_id
             /\ c.status = PENDENTE
             /\ c.valor_total = resp'[r].valor_total
             /\ Len(c.itens) = Len(dados[r])
             /\ \A k \in 1..Len(c.itens) :
                  /\ k <= Len(dados[r])
                  /\ c.itens[k].produto_id = dados[r][k].produto_id
                  /\ c.itens[k].quantidade = dados[r][k].quantidade
                  /\ c.itens[k].preco_unitario_compra
                       = itens_pedido_info[r][k].preco_unitario_compra]_vars

\* C10: in every state each order's status is one of the five values; an
\* order enters the store as PENDENTE; an UpdateStatus whose status equals one
\* of the five when case is ignored, on the code of a stored order, answers
\* 200 and stores that upper-case value in that order and changes no other
\* status; any other UpdateStatus (no status, a value outside the five, an
\* unknown code) answers 400 or 404 and leaves pedidos unchanged.
C10_Status ==
  /\ [](\A i \in 1..Len(pedidos) : pedidos[i].status \in CincoStatus)
  /\ [][ /\ \A i \in (Len(pedidos) + 1)..Len(pedidos') : pedidos'[i].status = PENDENTE
         /\ \A codigo \in Codigos, d \in StatusReqs :
              admin_atualizar_status_pedido(codigo, d) =>
                IF /\ d.tem_status
                   /\ \E s \in CincoStatus : IgualSemCaixa(d.status, s)
                   /\ \E i \in 1..Len(pedidos) : pedidos[i].codigo_retirada = codigo
                THEN /\ admin_resp' = 200
                     /\ Len(pedidos') = Len(pedidos)
                     /\ \A i \in 1..Len(pedidos) :
                          IF pedidos[i].codigo_retirada = codigo
                          THEN /\ pedidos'[i].status \in CincoStatus
                               /\ IgualSemCaixa(d.status, pedidos'[i].status)
                          ELSE pedidos'[i].status = pedidos[i].status
                ELSE /\ admin_resp' \in {400, 404}
                     /\ pedidos' = pedidos ]_vars

\* a status sent in lower case was stored in upper case
C10_Witness ==
  \E i \in 1..Len(pedidos) : pedidos[i].status = PRONTO

\* the spec's name for the outcome of a PlaceOrder response
ErroDoSpec(resposta) ==
  IF resposta.http = 400 /\ resposta.erro \in {"itens", "campos", "inteiros"}
  THEN "MalformedInput"
  ELSE IF resposta.http = 400 /\ resposta.erro = "quantidade" THEN "InvalidQuantity"
  ELSE IF resposta.http = 404 /\ resposta.erro = "nao_encontrado" THEN "ProductNotFound"
  ELSE IF resposta.http = 400 /\ resposta.erro = "indisponivel" THEN "ProductUnavailable"
  ELSE IF resposta.http = 400 /\ resposta.erro = "total" THEN "InvalidOrderTotal"
  ELSE IF resposta.http = 201 THEN "Created"
  ELSE "InternalError"

\* the first check, in the spec's order, that the entry fails over the catalog P
PrimeiraFalha(item, P) ==
  IF item.forma # "int" THEN "MalformedInput"
  ELSE IF item.quantidade <= 0 THEN "InvalidQuantity"
  ELSE IF item.produto_id \notin DOMAIN P THEN "ProductNotFound"
  ELSE IF ~P[item.produto_id].disponivel THEN "ProductUnavailable"
  ELSE "nenhuma"

\* C11 (as claimed): each step of the validation takes the next entry of the
\* request; if the entry fails a check, the request ends there with the error
\* of the first check it fails, in the order MalformedInput (missing field or
\* unparseable number), InvalidQuantity, ProductNotFound, ProductUnavailable;
\* if it fails none, the request goes on to the next entry or to the insert.
C11_PrimeiraFalhaDecide ==
  [][\A r \in Requisicoes :
       (pc[r] = "validar" /\ Len(dados'[r]) = Len(dados[r]) + 1) =>
         LET item == dados'[r][Len(dados'[r])]
         IN  IF PrimeiraFalha(item, produtos) = "nenhuma"
             THEN pc'[r] \in {"validar", "gerar"}
             ELSE /\ pc'[r] = "fim"
                  /\ ErroDoSpec(resp'[r]) = PrimeiraFalha(item, produtos)]_vars

\* C12 (as claimed): a request that ended and has an entry with a field
\* missing or not parseable as an integer (a non-numeric string, a null, an
\* entry that is no object) was answered MalformedInput with HTTP 400.
C12_MalformadoDa400 ==
  \A r \in Requisicoes :
    (pc[r] = "fim" /\ \E k \in 1..Len(dados[r]) : dados[r][k].forma # "int")
      => (resp[r].http = 400 /\ ErroDoSpec(resp[r]) = "MalformedInput")

\* C13: the rejection InvalidOrderTotal is unreachable. In every state every
\* product of the catalog has a strictly positive price, every request that
\* has collected an item or passed the per-item checks has a strictly
\* positive computed total, and no request was answered InvalidOrderTotal.
C13_TotalSemprePositivo ==
  /\ \A id \in DOMAIN produtos : produtos[id].preco > 0
  /\ \A r \in Requisicoes :
       /\ itens_pedido_info[r] # << >> => valor_total_pedido[r] > 0
       /\ pc[r] \in {"gerar", "inserir"} => valor_total_pedido[r] > 0
       /\ ErroDoSpec(resp[r]) # "InvalidOrderTotal"

\* a request of two entries passed every per-item check and the total check
C13_Witness ==
  \E r \in Requisicoes :
    /\ pc[r] = "gerar"
    /\ Len(dados[r]) = 2
    /\ valor_total_pedido[r] > 0

\* every code the generator can draw is the code of a stored order
NenhumCodigoLivre == \A codigo \in Codigos : CodigoExiste(codigo)

\* C14: a call of the generator leaves its loop only with a code that no
\* stored order has at that moment, and until then it stays in the loop with
\* nothing returned; with fair draws every call that is in the loop, also
\* with another call in the loop at the same time, eventually returns a code,
\* unless no code is free.
C14_GeradorDevolveCodigoLivre ==
  /\ [][\A r \in Requisicoes :
          pc[r] = "gerar" =>
            IF pc'[r] = "inserir"
            THEN /\ codigo_retirada_gerado'[r] \in Codigos
                 /\ \A i \in 1..Len(pedidos) :
                      pedidos[i].codigo_retirada # codigo_retirada_gerado'[r]
            ELSE /\ pc'[r] = "gerar"
                 /\ codigo_retirada_gerado'[r] = SemCodigo]_vars
  /\ \A r \in Requisicoes :
       (pc[r] = "gerar") ~> (pc[r] = "inserir" \/ NenhumCodigoLivre)

\* with one code already stored, a call returned the other code
C14_Witness ==
  \E r \in Requisicoes :
    /\ pc[r] = "inserir"
    /\ Len(pedidos) = 1
    /\ codigo_retirada_gerado[r] # pedidos[1].codigo_retirada

====
